---- MODULE Spec2Model ----
(***************************************************************************)
(* Client-side session layer of carta-frontend: the request gateway        *)
(* (apiRequest in lib/api-client.ts) with its 401 -> refresh -> retry      *)
(* protocol, and the session controller (AuthProvider in                   *)
(* contexts/auth-context.tsx) with checkAuth, refreshAuth, logout and the  *)
(* minute timer, over the token store (localStorage).                      *)
(*                                                                         *)
(* JavaScript runs one continuation at a time: a step of the model is one  *)
(* continuation, from the settling of an awaited promise (or an event) to  *)
(* the next await.  A fetch and the reading of its body (response.json())  *)
(* are one suspension: nothing of the page's state is read between them.   *)
(***************************************************************************)
EXTENDS Integers, Sequences, FiniteSets, TLC

VARIABLES
    store,      \* localStorage: [access, refresh], a token or None
    sess,       \* AuthProvider's state: [isAuthenticated, isAdmin, isLoading]
    calls,      \* the apiRequest invocations, one record per slot
    now,        \* Date.now(), in milliseconds
    mounted,    \* AuthProvider's effect has run (listeners and timer are set)
    path,       \* window.location.pathname, by prefix: "login", "auth", "app"
    push,       \* the target of the last router.push, or None
    events,     \* storage events: those queued for this tab, by key, and how
                \* many another tab has caused so far
    jwt,        \* a call of the token codec: its argument and its result
    error,      \* AuthCallbackPage's state: the error it shows, or None
    guard,      \* AdminProtectedRoute, the instance of the dashboard layout:
                \* [mounted, hasRedirected, view]
    traced,     \* the calls' records keep what each request in flight
                \* carries: its Authorization header, its refresh token
    hist        \* history: what has happened while each call's refresh,
                \* still awaited, was in flight

vars == <<store, sess, calls, now, mounted, path, push, events, jwt, error,
         guard, traced, hist>>

-----------------------------------------------------------------------------
(* Bounds *)

MaxCalls == 2       \* apiRequest invocations in one run
MaxTicks == 1       \* minutes the clock advances
MaxEvents == 1      \* writes of another tab to localStorage in one run
MaxLen == 4         \* characters of a token string given to the codec

(* Program constants *)

fiveMinutes == 300000       \* 5 * 60 * 1000
intervalMs == 60000         \* setInterval(..., 60 * 1000)

None == "none"

\* Access tokens.  A decodable token is named by its payload; "undefined" is
\* what localStorage.setItem stores for a missing access_token, and stands for
\* every token decodeToken cannot decode.
\* usr2 and usr6 are tokens of an earlier session that the backend no longer
\* issues: when the timer first fires, after a minute, usr2 is within five
\* minutes of its expiry and usr6 exactly five minutes from it.
Payload ==
    [ old   |-> [is_admin |-> FALSE, exp |-> 0],
      adm1  |-> [is_admin |-> TRUE,  exp |-> 60],
      usr10 |-> [is_admin |-> FALSE, exp |-> 600],
      usr2  |-> [is_admin |-> FALSE, exp |-> 120],
      usr6  |-> [is_admin |-> FALSE, exp |-> 360] ]

Undecodable == "undefined"
IssuedTokens == {"old", "adm1", "usr10"}
ExpiringTokens == {"usr2", "usr6"}
AccessTokens == IssuedTokens \cup {Undecodable}
\* Refresh tokens are opaque: the one of the session at start, and the one a
\* refresh response may carry.
StoredRefreshTokens == {"r0"}
NewRefreshTokens == {"r1"}

Null == [null |-> TRUE]

\* decodeToken: the claims of a token, or null (it catches every exception).
decodeToken(token) ==
    IF token \in DOMAIN Payload THEN Payload[token] ELSE Null

-----------------------------------------------------------------------------
(* decodeToken and parseJwt on strings *)

\* Strings are sequences of characters.  "." separates the segments; "a", "x"
\* and "+" are characters of the base64 alphabet, "-" one that base64url
\* writes for "+", "!" one of neither alphabet.  Decoded, "a" and "+" give a
\* byte "j" of a JSON text and "x" a byte "g" that no JSON text has.
Chars == {".", "a", "x", "-", "!"}

Strings(n) == UNION {[1..m -> Chars] : m \in 0..n}

\* str.split("."): the segments, one more than there are separators.
RECURSIVE split(_)
split(str) ==
    IF \A k \in 1..Len(str) : str[k] # "." THEN <<str>>
    ELSE LET k == CHOOSE j \in 1..Len(str) :
                     /\ str[j] = "."
                     /\ \A m \in 1..(j - 1) : str[m] # "."
         IN <<SubSeq(str, 1, k - 1)>> \o split(SubSeq(str, k + 1, Len(str)))

\* base64Url.replace(/-/g, "+").replace(/_/g, "/")
replace(base64Url) ==
    [k \in 1..Len(base64Url) |->
        IF base64Url[k] = "-" THEN "+" ELSE base64Url[k]]

\* atob throws for a character outside the base64 alphabet.
atobThrows(base64) == \E k \in 1..Len(base64) : base64[k] \notin {"a", "x", "+"}

atob(base64) ==
    [k \in 1..Len(base64) |-> IF base64[k] = "x" THEN "g" ELSE "j"]

\* JSON.parse throws for the empty text and for a text that is not JSON.
parseThrows(text) == text = <<>> \/ \E k \in 1..Len(text) : text[k] # "j"

\* The result of the codec: null, or the parsed payload.
Claims(text) == [null |-> FALSE, json |-> text]

\* parseJwt (decodeToken has the same statements): every exception thrown in
\* the try block, the TypeError of undefined.replace for a token of one
\* segment among them, is caught and gives null.
parseJwt(token) ==
    IF Len(split(token)) < 2 THEN Null
    ELSE LET base64Url == split(token)[2]
             base64 == replace(base64Url)
         IN IF atobThrows(base64) THEN Null
            ELSE IF parseThrows(atob(base64)) THEN Null
            ELSE Claims(atob(base64))

NoJwt == [token |-> <<>>, called |-> FALSE, decoded |-> Null]

Calls == 1..MaxCalls

\* The outcome of an apiRequest call: resolved, or rejected with an ApiError
\* (status, message) or, for a rejected fetch, with fetch's own TypeError.
Pending == [k |-> "pending", status |-> 0, msg |-> "none"]
Resolved == [k |-> "ok", status |-> 0, msg |-> "none"]
ApiError(msg, status) == [k |-> "ApiError", status |-> status, msg |-> msg]
TypeError == [k |-> "TypeError", status |-> 0, msg |-> "network"]

\* A response: its status (0: fetch rejected, there is none) and, for the
\* token endpoints, its parsed body: the fields access_token and refresh_token
\* of the body itself, and those of its data field if it has one.
NoData == [present |-> FALSE, access |-> None, refresh |-> None]

NoBody == [status |-> 0, access |-> None, refresh |-> None, data |-> NoData]

\* A 2xx token response in its two shapes: {access_token, refresh_token?} and
\* {data: {access_token, refresh_token?}}.
Unwrapped(a, r) == [NoBody EXCEPT !.status = 200, !.access = a, !.refresh = r]

Wrapped(a, r) ==
    [NoBody EXCEPT !.status = 200,
                   !.data = [present |-> TRUE, access |-> a, refresh |-> r]]

\* const tokenData = responseData.data || responseData
tokenData(responseData) ==
    IF responseData.data.present THEN responseData.data ELSE responseData

\* An apiRequest invocation.  Authorization: the bearer token of its request
\* in flight, if it has one.  refreshToken: the refresh token of the refresh
\* request in flight (the local variable of the 401 path, or refreshAuth's).
\* rethrown: the caller has thrown apiRequest's error on to its own caller.
IdleCall ==
    [ pc |-> "idle", kind |-> "none",
      first |-> -1, rres |-> "none", retry |-> -1, access_token |-> None,
      sends |-> 0, refreshCalls |-> 0, broadcasts |-> 0,
      purges |-> 0, navs |-> 0, out |-> Pending,
      Authorization |-> None, refreshToken |-> None, rethrown |-> FALSE ]

\* The page's state as one value, for the handlers below to transform.
\* over: a handler had to start a call and no slot was left (the run is cut).
Cur ==
    [ store |-> store, sess |-> sess, calls |-> calls, push |-> push,
      error |-> error, over |-> FALSE ]

-----------------------------------------------------------------------------
(* localStorage *)

setItem(s, key, v) == [s EXCEPT !.store[key] = v]
removeItem(s, key) == [s EXCEPT !.store[key] = None]

purgeTokens(s) == removeItem(removeItem(s, "access"), "refresh")

setAuth(s, a, d) ==
    [s EXCEPT !.sess.isAuthenticated = a, !.sess.isAdmin = d]

-----------------------------------------------------------------------------
(* apiRequest: the first send *)

FreeSlots(s) == {i \in Calls : s.calls[i].pc = "idle"}

\* Mutant: window is taken to be there wherever the code runs.
inBrowserAlways(kind) == TRUE

\* typeof window !== "undefined": every caller but the server's rendering.
inBrowser(kind) == kind # "server"

\* doRequest(tokenOverride): the token of the Authorization header of the
\* request it sends, None if it sets no such header.
doRequest(s, kind, tokenOverride) ==
    IF tokenOverride # None THEN tokenOverride
    ELSE IF inBrowser(kind) THEN s.store.access
    ELSE None

\* What a request carries, as the call's record keeps it.
sent(value) == IF traced THEN value ELSE None

\* apiRequest(endpoint) up to its first await: doRequest() sends the request.
\* refreshAuth's request carries the refresh token it has read.
startCall(s, kind) ==
    IF FreeSlots(s) = {} THEN [s EXCEPT !.over = TRUE]
    ELSE LET i == CHOOSE j \in FreeSlots(s) : \A m \in FreeSlots(s) : j <= m
         IN [s EXCEPT !.calls[i] =
                [IdleCall EXCEPT
                   !.pc = "first", !.kind = kind, !.sends = 1,
                   !.Authorization = sent(doRequest(s, kind, None)),
                   !.refreshToken = IF kind = "refreshAuth"
                                    THEN sent(s.store.refresh) ELSE None]]

-----------------------------------------------------------------------------
(* AuthProvider *)

\* Mutant: the session shows as loading while the refresh is under way.
refreshAuthLoading(s) ==
    IF s.store.refresh = None
    THEN setAuth(removeItem(s, "access"), FALSE, FALSE)
    ELSE [startCall(s, "refreshAuth") EXCEPT !.sess.isLoading = TRUE]

refreshAuth(s) ==
    IF s.store.refresh = None
    THEN setAuth(removeItem(s, "access"), FALSE, FALSE)
    ELSE startCall(s, "refreshAuth")

\* Mutant: the is_admin claim of a valid token is not taken over.
checkAuthNoAdmin(s) ==
    LET token == s.store.access
        decoded == decodeToken(token)
        r == IF token # None
             THEN IF decoded # Null /\ decoded.exp * 1000 > now
                  THEN setAuth(s, TRUE, FALSE)
                  ELSE refreshAuth(s)
             ELSE setAuth(s, FALSE, FALSE)
    IN [r EXCEPT !.sess.isLoading = FALSE]

\* Mutant: without an access token, a refresh is tried.
checkAuthRefreshesWithoutToken(s) ==
    LET token == s.store.access
        decoded == decodeToken(token)
        r == IF token # None /\ decoded # Null /\ decoded.exp * 1000 > now
             THEN setAuth(s, TRUE, decoded.is_admin)
             ELSE refreshAuth(s)
    IN [r EXCEPT !.sess.isLoading = FALSE]

checkAuth(s) ==
    LET token == s.store.access
        decoded == decodeToken(token)
        r == IF token # None
             THEN IF decoded # Null /\ decoded.exp * 1000 > now
                  THEN setAuth(s, TRUE, decoded.is_admin)
                  ELSE refreshAuth(s)
             ELSE setAuth(s, FALSE, FALSE)
    IN [r EXCEPT !.sess.isLoading = FALSE]

\* window.dispatchEvent(new Event('tokenRefreshed')): the listener runs
\* synchronously, if AuthProvider has registered it.
dispatchTokenRefreshed(s) == IF mounted THEN checkAuth(s) ELSE s

\* Mutant: the listener reacts to the access token's key only.
handleStorageChangeAccessOnly(s, key) ==
    IF key = "access" THEN checkAuth(s) ELSE s

\* window's storage listener: e.key is the key another tab has written.
handleStorageChange(s, key) ==
    IF key = "access" \/ key = "refresh" THEN checkAuth(s) ELSE s

-----------------------------------------------------------------------------
(* The callers' continuations, run when their apiRequest settles *)

\* Mutant: the catch block leaves the refresh token in the store.
refreshAuthThenKeepsRefresh(s, out, body) ==
    IF out.k = "ok"
    THEN LET acc == IF body.access = None THEN Undecodable ELSE body.access
             s1 == setItem(s, "access", acc)
             s2 == IF body.refresh # None
                   THEN setItem(s1, "refresh", body.refresh) ELSE s1
             decoded == decodeToken(body.access)
         IN IF decoded # Null
            THEN setAuth(s2, TRUE, decoded.is_admin)
            ELSE s2
    ELSE setAuth(removeItem(s, "access"), FALSE, FALSE)

\* refreshAuth after apiClient.refreshToken: body is the parsed response.
refreshAuthThen(s, out, body) ==
    IF out.k = "ok"
    THEN LET acc == IF body.access = None THEN Undecodable ELSE body.access
             s1 == setItem(s, "access", acc)
             s2 == IF body.refresh # None
                   THEN setItem(s1, "refresh", body.refresh) ELSE s1
             decoded == decodeToken(body.access)
         IN IF decoded # Null
            THEN setAuth(s2, TRUE, decoded.is_admin)
            ELSE s2
    ELSE setAuth(purgeTokens(s), FALSE, FALSE)

\* Mutant: the purge written in the try block, after the await.
logoutThenInTry(s, out) ==
    IF out.k = "ok"
    THEN [setAuth(purgeTokens(s), FALSE, FALSE) EXCEPT !.push = "/login"]
    ELSE s

\* logout after apiClient.logout: the finally block.
logoutThen(s, out) ==
    [setAuth(purgeTokens(s), FALSE, FALSE) EXCEPT !.push = "/login"]

\* Mutant: the browser is sent on whether the URL was fetched or not.
loginThenNavigates(s, i, out) == [s EXCEPT !.calls[i].navs = @ + 1]

\* login after apiClient.getDiscordLoginUrl: the browser is sent to the
\* authorization URL (window.location.href is assigned), or the error is
\* thrown on.
loginThen(s, i, out) ==
    IF out.k = "ok" THEN [s EXCEPT !.calls[i].navs = @ + 1]
    ELSE [s EXCEPT !.calls[i].rethrown = TRUE]

\* Mutant: the browser is sent to /dashboard whatever the exchange gave.
exchangeTokenThenNavigates(s, i, out, body) ==
    IF out.k = "ok"
    THEN LET s1 == IF body.access # None
                   THEN setItem(s, "access", body.access) ELSE s
             s2 == IF body.access # None /\ body.refresh # None
                   THEN setItem(s1, "refresh", body.refresh) ELSE s1
         IN [s2 EXCEPT !.calls[i].navs = @ + 1]
    ELSE [s EXCEPT !.error = "Failed to exchange token"]

\* AuthCallbackPage's exchangeToken after its await (page.tsx 28-40): the
\* fields of the body are read where they stand, data.access_token and
\* data.refresh_token; window.location.href = "/dashboard" is an assignment
\* of the location, counted like the others.
exchangeTokenThen(s, i, out, body) ==
    IF out.k = "ok"
    THEN IF body.access # None
         THEN LET s1 == setItem(s, "access", body.access)
                  s2 == IF body.refresh # None
                        THEN setItem(s1, "refresh", body.refresh) ELSE s1
              IN [s2 EXCEPT !.calls[i].navs = @ + 1]
         ELSE [s EXCEPT !.error = "No access token received"]
    ELSE [s EXCEPT !.error = "Failed to exchange token"]

\* apiRequest settles: the call is done and its caller continues.
settle(s, i, out, body) ==
    LET s1 == [s EXCEPT !.calls[i].pc = "done", !.calls[i].out = out,
                        !.calls[i].access_token = None,
                        !.calls[i].Authorization = None,
                        !.calls[i].refreshToken = None]
        kind == s.calls[i].kind
    IN CASE kind = "refreshAuth" -> refreshAuthThen(s1, out, body)
         [] kind = "logout" -> logoutThen(s1, out)
         [] kind = "login" -> loginThen(s1, i, out)
         [] kind = "callback" -> exchangeTokenThen(s1, i, out, body)
         [] OTHER -> s1

-----------------------------------------------------------------------------
(* apiRequest: the 401 path *)

isOk(status) == status >= 200 /\ status <= 299

\* if (!pathname.startsWith("/login") && !pathname.startsWith("/auth"))
\*     window.location.href = "/login"
\* Mutant: only the prefix /login keeps the browser where it is.
redirectToLoginFromAuth(s, i) ==
    IF path # "login" THEN [s EXCEPT !.calls[i].navs = @ + 1] ELSE s

redirectToLogin(s, i) ==
    IF path # "login" /\ path # "auth"
    THEN [s EXCEPT !.calls[i].navs = @ + 1] ELSE s

\* Mutant: a failure branch that forgets the refresh token.
purgeAccessOnly(s, i) ==
    redirectToLogin([removeItem(s, "access") EXCEPT !.calls[i].purges = @ + 1],
                    i)

\* A failure branch of the refresh: purge, redirect (the throw follows).
purgeAndRedirect(s, i) ==
    redirectToLogin([purgeTokens(s) EXCEPT !.calls[i].purges = @ + 1], i)

\* catch (refreshError): whatever was thrown inside the try ends here.
refreshCatch(s, i) ==
    settle(purgeAndRedirect(s, i), i, ApiError("refreshException", 401),
           NoBody)

\* Mutant: response is not reassigned by the retry, the first one is judged.
respondStale(s, i, resp) ==
    LET st == s.calls[i].first
    IN IF ~isOk(st)
       THEN settle(s, i, ApiError("response", st), resp)
       ELSE settle(s, i, Resolved, resp)

\* Mutant: a 403 is handled as a failed authentication.
respondPurging(s, i, resp) ==
    IF ~isOk(resp.status)
    THEN IF resp.status = 403
         THEN settle(purgeAndRedirect(s, i), i,
                     ApiError("forbidden", resp.status), resp)
         ELSE settle(s, i, ApiError("response", resp.status), resp)
    ELSE settle(s, i, Resolved, resp)

\* Lines 566-584: the response that is not (or no longer) handled as a 401.
respond(s, i, resp) ==
    IF ~isOk(resp.status)
    THEN IF resp.status = 403
         THEN settle(s, i, ApiError("forbidden", resp.status), resp)
         ELSE settle(s, i, ApiError("response", resp.status), resp)
    ELSE settle(s, i, Resolved, resp)

\* Mutant: without a refresh token, the access token is left in the store.
onFirstKeepsToken(s, i, resp) ==
    LET s1 == [s EXCEPT !.calls[i].first = resp.status,
                        !.calls[i].Authorization = None,
                        !.calls[i].refreshToken = None]
    IN IF resp.status = 0 THEN settle(s1, i, TypeError, resp)
       ELSE IF resp.status = 401
       THEN IF inBrowser(s1.calls[i].kind)
            THEN IF s1.store.refresh # None
                 THEN [s1 EXCEPT !.calls[i].pc = "refresh",
                                 !.calls[i].refreshCalls = @ + 1,
                                 !.calls[i].refreshToken =
                                     sent(s1.store.refresh)]
                 ELSE settle(redirectToLogin(s1, i), i,
                             ApiError("response", resp.status), resp)
            ELSE settle(s1, i, ApiError("response", resp.status), resp)
       ELSE respond(s1, i, resp)

\* The continuation of the first doRequest().
onFirst(s, i, resp) ==
    LET s1 == [s EXCEPT !.calls[i].first = resp.status,
                        !.calls[i].Authorization = None,
                        !.calls[i].refreshToken = None]
    IN IF resp.status = 0 THEN settle(s1, i, TypeError, resp)
       ELSE IF resp.status = 401
       THEN IF inBrowser(s1.calls[i].kind)
            THEN IF s1.store.refresh # None
                 THEN [s1 EXCEPT !.calls[i].pc = "refresh",
                                 !.calls[i].refreshCalls = @ + 1,
                                 !.calls[i].refreshToken =
                                     sent(s1.store.refresh)]
                 ELSE settle(redirectToLogin(removeItem(s1, "access"), i), i,
                             ApiError("response", resp.status), resp)
            ELSE settle(s1, i, ApiError("response", resp.status), resp)
       ELSE respond(s1, i, resp)

\* Mutant: the tokens are stored and the request retried with no event.
refreshOkSilent(s, i, rr) ==
    LET s1 == setItem(s, "access", rr.access)
        s2 == IF rr.refresh # None THEN setItem(s1, "refresh", rr.refresh)
              ELSE s1
    IN [s2 EXCEPT !.calls[i].pc = "retry", !.calls[i].sends = @ + 1,
                  !.calls[i].access_token = rr.access,
                  !.calls[i].refreshToken = None,
                  !.calls[i].Authorization =
                      sent(doRequest(s2, s.calls[i].kind, rr.access))]

\* Mutant: tokenRefreshed is dispatched before the tokens are written.
refreshOkDispatchFirst(s, i, rr) ==
    LET s0 == dispatchTokenRefreshed(
                [s EXCEPT !.calls[i].broadcasts = @ + 1])
        s1 == setItem(s0, "access", rr.access)
        s2 == IF rr.refresh # None THEN setItem(s1, "refresh", rr.refresh)
              ELSE s1
    IN [s2 EXCEPT !.calls[i].pc = "retry", !.calls[i].sends = @ + 1,
                  !.calls[i].access_token = rr.access,
                  !.calls[i].refreshToken = None,
                  !.calls[i].Authorization =
                      sent(doRequest(s2, s.calls[i].kind, rr.access))]

\* Mutant: the retried request reads its token from the store again.
refreshOkRereads(s, i, rr) ==
    LET s1 == setItem(s, "access", rr.access)
        s2 == IF rr.refresh # None THEN setItem(s1, "refresh", rr.refresh)
              ELSE s1
        s3 == dispatchTokenRefreshed(
                [s2 EXCEPT !.calls[i].broadcasts = @ + 1])
    IN [s3 EXCEPT !.calls[i].pc = "retry", !.calls[i].sends = @ + 1,
                  !.calls[i].access_token = rr.access,
                  !.calls[i].refreshToken = None,
                  !.calls[i].Authorization =
                      sent(doRequest(s3, s.calls[i].kind, None))]

\* The refresh succeeded and gave an access token: lines 507-516.
refreshOk(s, i, rr) ==
    LET s1 == setItem(s, "access", rr.access)
        s2 == IF rr.refresh # None THEN setItem(s1, "refresh", rr.refresh)
              ELSE s1
        s3 == dispatchTokenRefreshed(
                [s2 EXCEPT !.calls[i].broadcasts = @ + 1])
    IN [s3 EXCEPT !.calls[i].pc = "retry", !.calls[i].sends = @ + 1,
                  !.calls[i].access_token = rr.access,
                  !.calls[i].refreshToken = None,
                  !.calls[i].Authorization =
                      sent(doRequest(s3, s.calls[i].kind, rr.access))]

\* How the refresh of the 401 path went: rr.kind is "ok" for a 2xx response
\* (rr.body is its parsed body), "notOk" for another response, "netErr" for a
\* rejected fetch.
refreshResult(rr) ==
    IF rr.kind = "ok"
    THEN IF tokenData(rr.body).access # None THEN "okToken" ELSE "okNoToken"
    ELSE rr.kind

\* The continuation of the refresh fetch (and of reading its body).
onRefresh(s, i, rr) ==
    LET s1 == [s EXCEPT !.calls[i].rres = refreshResult(rr)]
    IN CASE refreshResult(rr) = "okToken" ->
                refreshOk(s1, i, tokenData(rr.body))
         [] refreshResult(rr) = "okNoToken" ->
                refreshCatch(purgeAndRedirect(s1, i), i)
         [] refreshResult(rr) = "notOk" ->
                refreshCatch(purgeAndRedirect(s1, i), i)
         [] OTHER -> refreshCatch(s1, i)

\* Mutant: a 401 of the retried request is handled like the first one.
onRetryAgain(s, i, resp) ==
    LET s1 == [s EXCEPT !.calls[i].retry = resp.status]
    IN IF resp.status = 0 THEN refreshCatch(s1, i)
       ELSE IF resp.status = 401 THEN onFirst(s1, i, resp)
       ELSE respond(s1, i, resp)

\* The continuation of the retried doRequest(access_token), awaited inside
\* the try block.
onRetry(s, i, resp) ==
    LET s1 == [s EXCEPT !.calls[i].retry = resp.status]
    IN IF resp.status = 0 THEN refreshCatch(s1, i)
       ELSE respond(s1, i, resp)

-----------------------------------------------------------------------------
(* The backend's answers *)

\* 200 stands for every 2xx (a 204 resolves to {}, as a 200 whose body has
\* no fields does), 500 for every other status that is not 2xx, 401 or 403.
Statuses == {200, 401, 403, 500}

\* The 2xx answers of the refresh endpoint: an access token, with a new
\* refresh token or without, in either shape; or (a malformed answer) no
\* access token, which reads the same in both shapes.
TokenBodies ==
    {Unwrapped(a, r) : a \in IssuedTokens \cup {None},
                       r \in NewRefreshTokens \cup {None}}
    \cup {Wrapped(a, r) : a \in IssuedTokens,
                          r \in NewRefreshTokens \cup {None}}

\* What fetch gives for an ordinary endpoint: a response, or (status 0) a
\* rejection.  The body's tokens matter for the token endpoints only.
Responses(kind) ==
    IF kind = "refreshAuth" \/ kind = "callback"
    THEN {[NoBody EXCEPT !.status = st] : st \in (Statuses \ {200}) \cup {0}}
         \cup TokenBodies
    ELSE {[NoBody EXCEPT !.status = st] : st \in Statuses \cup {0}}

\* What the refresh fetch of the 401 path gives.
RefreshResults ==
    {[kind |-> "ok", body |-> b] : b \in TokenBodies}
    \cup {[kind |-> k, body |-> NoBody] : k \in {"notOk", "netErr"}}

-----------------------------------------------------------------------------
(* Actions *)

FailKinds == {"okNoToken", "notOk", "netErr"}

\* A call whose refresh request is awaiting its response: the refresh fetch of
\* the 401 path, or refreshAuth's own request to the refresh endpoint.
AwaitingRefresh(c) ==
    \/ c.pc = "refresh"
    \/ c.kind = "refreshAuth" /\ c.pc \in {"first", "retry"}

\* What a step from calls to next does that the properties name: logout()'s
\* finally block ran, the refresh of these calls' 401 path failed.
NoHist == [logout |-> FALSE, failed |-> {}]

Events(next) ==
    [ logout |-> \E j \in Calls : /\ calls[j].kind = "logout"
                                  /\ calls[j].pc # "done"
                                  /\ next[j].pc = "done",
      failed |-> {j \in Calls : /\ calls[j].pc = "refresh"
                                /\ next[j].rres \in FailKinds} ]

\* AdminProtectedRoute's effect (app-sidebar.tsx 119-136): the target it
\* pushes to the router, having set hasRedirected, or None.
AdminProtectedRouteEffect(se) ==
    IF ~se.isLoading
    THEN IF ~se.isAuthenticated THEN "/login"
         ELSE IF ~se.isAdmin THEN "/unauthorized"
         ELSE None
    ELSE None

\* Mutant: the children are shown again once the session is an admin's.
AdminProtectedRouteForgets(se, hasRedirected) ==
    IF se.isLoading THEN "spinner"
    ELSE IF ~se.isAuthenticated \/ ~se.isAdmin THEN "spinner"
    ELSE "children"

\* What AdminProtectedRoute renders (app-sidebar.tsx 139-157).
AdminProtectedRoute(se, hasRedirected) ==
    IF se.isLoading THEN "spinner"
    ELSE IF ~se.isAuthenticated \/ ~se.isAdmin \/ hasRedirected THEN "spinner"
    ELSE "children"

NoGuard == [mounted |-> FALSE, hasRedirected |-> FALSE, view |-> "none"]

\* The guard after its effect has run for the session se and it has
\* rendered again.
Guarded(g, se) ==
    LET redirected == g.hasRedirected \/ AdminProtectedRouteEffect(se) # None
    IN [ mounted |-> TRUE, hasRedirected |-> redirected,
         view |-> AdminProtectedRoute(se, redirected) ]

\* The handler's result s becomes the page's state.  A mounted guard renders
\* again when the session has changed, and its effect, whose dependencies
\* are the session's three fields, runs again.
Become(s) ==
    /\ ~s.over
    /\ store' = s.store
    /\ sess' = s.sess
    /\ calls' = s.calls
    /\ error' = s.error
    /\ guard' = IF guard.mounted /\ s.sess # sess THEN Guarded(guard, s.sess)
                ELSE guard
    /\ push' = IF /\ guard.mounted /\ s.sess # sess
                  /\ AdminProtectedRouteEffect(s.sess) # None
               THEN AdminProtectedRouteEffect(s.sess)
               ELSE s.push
    /\ hist' = [i \in Calls |->
                 IF AwaitingRefresh(calls[i]) /\ AwaitingRefresh(s.calls[i])
                 THEN [ logout |-> hist[i].logout \/ Events(s.calls).logout,
                        failed |-> hist[i].failed \cup Events(s.calls).failed ]
                 ELSE NoHist]

\* AuthProvider's effect: checkAuth(), then the listeners and the timer.
Mount ==
    /\ ~mounted
    /\ mounted' = TRUE
    /\ Become(checkAuth(Cur))
    /\ UNCHANGED <<now, path, events, jwt,
                 traced>>

\* A component calls an apiClient method of an ordinary endpoint.
StartRequest ==
    /\ mounted
    /\ Become(startCall(Cur, "resource"))
    /\ UNCHANGED <<now, mounted, path, events, jwt,
                 traced>>

\* apiRequest is called where there is no window: while the server renders.
StartServerRequest ==
    /\ Become(startCall(Cur, "server"))
    /\ UNCHANGED <<now, mounted, path, events, jwt,
                 traced>>

\* The user logs out: logout() up to its await.
StartLogout ==
    /\ mounted
    /\ Become(startCall(Cur, "logout"))
    /\ UNCHANGED <<now, mounted, path, events, jwt,
                 traced>>

\* The user asks to log in: login() up to its await.
StartLogin ==
    /\ mounted
    /\ Become(startCall(Cur, "login"))
    /\ UNCHANGED <<now, mounted, path, events, jwt,
                 traced>>

FirstResponse(i) ==
    /\ calls[i].pc = "first"
    /\ \E resp \in Responses(calls[i].kind) : Become(onFirst(Cur, i, resp))
    /\ UNCHANGED <<now, mounted, path, events, jwt,
                 traced>>

RefreshResponse(i) ==
    /\ calls[i].pc = "refresh"
    /\ \E rr \in RefreshResults : Become(onRefresh(Cur, i, rr))
    /\ UNCHANGED <<now, mounted, path, events, jwt,
                 traced>>

RetryResponse(i) ==
    /\ calls[i].pc = "retry"
    /\ \E resp \in Responses(calls[i].kind) : Become(onRetry(Cur, i, resp))
    /\ UNCHANGED <<now, mounted, path, events, jwt,
                 traced>>

\* Mutant: a token exactly five minutes from its expiry is refreshed too.
intervalCallbackInclusive(s, t) ==
    LET token == s.store.access
        decoded == decodeToken(token)
        timeUntilExpiry == decoded.exp * 1000 - t
    IN IF token # None /\ decoded # Null
       THEN IF timeUntilExpiry <= fiveMinutes THEN refreshAuth(s) ELSE s
       ELSE s

\* The setInterval callback.
intervalCallback(s, t) ==
    LET token == s.store.access
        decoded == decodeToken(token)
        timeUntilExpiry == decoded.exp * 1000 - t
    IN IF token # None /\ decoded # Null
       THEN IF timeUntilExpiry < fiveMinutes /\ timeUntilExpiry > 0
            THEN refreshAuth(s)
            ELSE IF timeUntilExpiry <= 0 THEN refreshAuth(s) ELSE s
       ELSE s

\* A minute passes and the timer fires.
Tick ==
    /\ mounted
    /\ now < MaxTicks * intervalMs
    /\ now' = now + intervalMs
    /\ Become(intervalCallback(Cur, now'))
    /\ UNCHANGED <<mounted, path, events, jwt,
                 traced>>

\* The keys of localStorage another tab may write: the two tokens, and one
\* that stands for every other key.
Keys == {"access", "refresh", "theme"}

TabValues(key) ==
    CASE key = "access" -> AccessTokens \cup {None}
      [] key = "refresh" -> StoredRefreshTokens \cup NewRefreshTokens \cup {None}
      [] OTHER -> {None}

\* Another tab of the origin sets or removes a key: the store is shared, and
\* a storage event is queued for this tab (for a token, if its value changes).
\* Before AuthProvider has mounted there is no listener, and what another tab
\* wrote by then is the store of Init.
OtherTabWrite ==
    /\ mounted
    /\ events.posted < MaxEvents
    /\ \E key \in Keys : \E v \in TabValues(key) :
          /\ key \in DOMAIN store => v # store[key]
          /\ store' = IF key \in DOMAIN store
                      THEN [store EXCEPT ![key] = v] ELSE store
          /\ events' = [queue |-> Append(events.queue, key),
                        posted |-> events.posted + 1]
    /\ UNCHANGED <<sess, calls, now, mounted, path, push, hist, jwt,
                 error, guard, traced>>

\* The storage event is delivered to the listener.
StorageEvent ==
    /\ events.queue # <<>>
    /\ events' = [events EXCEPT !.queue = Tail(@)]
    /\ Become(handleStorageChange(Cur, Head(events.queue)))
    /\ UNCHANGED <<now, mounted, path, jwt,
                 traced>>

\* The router completes a router.push.
RouterCommit ==
    /\ push # None
    /\ path' = IF push = "/login" THEN "login" ELSE "app"
    /\ push' = None
    /\ guard' = NoGuard
    /\ UNCHANGED <<store, sess, calls, now, mounted, events, hist, jwt,
                 error, traced>>

\* AuthCallbackPage's effect (page.tsx 13-44), run once when the page under
\* /auth has mounted: without code or state it sets the error and returns,
\* otherwise exchangeToken() runs up to its await.
AuthCallbackPage ==
    /\ path = "auth"
    /\ error = None
    /\ \A i \in Calls : calls[i].kind # "callback"
    /\ \E params \in {"none", "code", "state", "both"} :
          IF params = "both"
          THEN Become(startCall(Cur, "callback"))
          ELSE Become([Cur EXCEPT !.error = "Missing code or state parameters"])
    /\ UNCHANGED <<now, mounted, path, events, jwt, traced>>

\* A dashboard page is opened: DashboardLayout mounts AdminProtectedRoute,
\* which renders and runs its effect for the first time.  On a full page
\* load this comes before AuthProvider's effect, a child's effects running
\* before its parent's; on a navigation within the app it comes after.
MountGuard ==
    /\ ~guard.mounted
    /\ path = "app"
    /\ push = None
    /\ guard' = Guarded(NoGuard, sess)
    /\ push' = AdminProtectedRouteEffect(sess)
    /\ UNCHANGED <<store, sess, calls, now, mounted, path, events, hist, jwt,
                 error, traced>>

Init ==
    /\ store \in [access : AccessTokens \cup {None},
                  refresh : StoredRefreshTokens \cup {None}]
    /\ sess = [isAuthenticated |-> FALSE, isAdmin |-> FALSE, isLoading |-> TRUE]
    /\ calls = [i \in Calls |-> IdleCall]
    /\ now = 0
    /\ mounted = FALSE
    /\ path \in {"app", "auth"}
    /\ push = None
    /\ events = [queue |-> <<>>, posted |-> 0]
    /\ jwt = NoJwt
    /\ error = None
    /\ guard = NoGuard
    /\ traced = FALSE
    /\ hist = [i \in Calls |-> NoHist]

Next ==
    \/ Mount
    \/ StartRequest
    \/ StartLogout
    \/ \E i \in Calls : FirstResponse(i)
    \/ \E i \in Calls : RefreshResponse(i)
    \/ \E i \in Calls : RetryResponse(i)
    \/ RouterCommit

\* The page until the timer first fires: the clock reads 0 throughout, and no
\* token's expiry is passed before a minute is over.
Spec == Init /\ [][Next]_vars

\* The same, with what the requests carry kept in the calls' records.
InitTraced ==
    /\ store \in [access : AccessTokens \cup {None},
                  refresh : StoredRefreshTokens \cup {None}]
    /\ sess = [isAuthenticated |-> FALSE, isAdmin |-> FALSE, isLoading |-> TRUE]
    /\ calls = [i \in Calls |-> IdleCall]
    /\ now = 0
    /\ mounted = FALSE
    /\ path \in {"app", "auth"}
    /\ push = None
    /\ events = [queue |-> <<>>, posted |-> 0]
    /\ jwt = NoJwt
    /\ error = None
    /\ guard = NoGuard
    /\ traced = TRUE
    /\ hist = [i \in Calls |-> NoHist]

SpecTraced == InitTraced /\ [][Next]_vars

\* The page with its timer.
NextTimer == Next \/ Tick

SpecTimer == Init /\ [][NextTimer]_vars

\* apiRequest outside a browser: the requests of the server's rendering and
\* their responses.  The store stands for what a browser would hold.
NextServer == StartServerRequest \/ \E i \in Calls : FirstResponse(i)

SpecServer == InitTraced /\ [][NextServer]_vars

\* The page that Discord sends the browser back to.
NextCallback == Next \/ AuthCallbackPage

SpecCallback == Init /\ [][NextCallback]_vars

\* The dashboard: the page with AdminProtectedRoute around its content.
NextGuard == Next \/ MountGuard

SpecGuard == Init /\ [][NextGuard]_vars

\* The page without its timer, with the login button.
NextLogin == Next \/ StartLogin

SpecLogin == Init /\ [][NextLogin]_vars

\* The codec alone: a string is given to parseJwt (or decodeToken).
InitCodec ==
    /\ store = [access |-> None, refresh |-> None]
    /\ sess = [isAuthenticated |-> FALSE, isAdmin |-> FALSE, isLoading |-> TRUE]
    /\ calls = [i \in Calls |-> IdleCall]
    /\ now = 0
    /\ mounted = FALSE
    /\ path = "app"
    /\ push = None
    /\ events = [queue |-> <<>>, posted |-> 0]
    /\ jwt \in [token : Strings(MaxLen), called : {FALSE}, decoded : {Null}]
    /\ error = None
    /\ guard = NoGuard
    /\ traced = FALSE
    /\ hist = [i \in Calls |-> NoHist]

Decode ==
    /\ ~jwt.called
    /\ jwt' = [jwt EXCEPT !.called = TRUE, !.decoded = parseJwt(jwt.token)]
    /\ UNCHANGED <<store, sess, calls, now, mounted, path, push, events, hist,
                 error, guard, traced>>

SpecCodec == InitCodec /\ [][Decode]_vars

\* The page with its timer, loaded with any access token in the store, those
\* about to expire included.
InitExpiry ==
    /\ store \in [access : AccessTokens \cup ExpiringTokens \cup {None},
                  refresh : StoredRefreshTokens \cup {None}]
    /\ sess = [isAuthenticated |-> FALSE, isAdmin |-> FALSE, isLoading |-> TRUE]
    /\ calls = [i \in Calls |-> IdleCall]
    /\ now = 0
    /\ mounted = FALSE
    /\ path \in {"app", "auth"}
    /\ push = None
    /\ events = [queue |-> <<>>, posted |-> 0]
    /\ jwt = NoJwt
    /\ error = None
    /\ guard = NoGuard
    /\ traced = FALSE
    /\ hist = [i \in Calls |-> NoHist]

SpecExpiry == InitExpiry /\ [][NextTimer]_vars

\* The page with its timer, the login button and another tab of the origin.
NextPage == NextTimer \/ StartLogin \/ OtherTabWrite \/ StorageEvent

SpecPage == Init /\ [][NextPage]_vars

-----------------------------------------------------------------------------
(* Properties *)

RECURSIVE SumField(_, _, _)
SumField(cs, field, n) ==
    IF n = 0 THEN 0 ELSE cs[n][field] + SumField(cs, field, n - 1)

Broadcasts(cs) == SumField(cs, "broadcasts", MaxCalls)

Emptied(st) == st.access = None /\ st.refresh = None

\* Steps of call i, as seen from outside.
GatewayRefreshOkStep(i) ==
    calls[i].pc = "refresh" /\ calls'[i].rres = "okToken"

GatewayRefreshFailStep(i) ==
    calls[i].pc = "refresh" /\ calls'[i].rres \in FailKinds

AuthRefreshSettles(i) ==
    /\ calls[i].kind = "refreshAuth"
    /\ calls[i].pc \in {"first", "retry"}
    /\ calls'[i].pc = "done"

\* refreshAuth's request was answered 2xx with an access token.
AuthRefreshOkStep(i) ==
    /\ AuthRefreshSettles(i)
    /\ calls'[i].out.k = "ok"
    /\ store'.access \in IssuedTokens

AuthRefreshFailStep(i) == AuthRefreshSettles(i) /\ calls'[i].out.k # "ok"

\* C1: a call whose first response is 401 and whose refresh gave an access
\* token has called the refresh endpoint once and sent the request twice, and
\* once the retried response is there its outcome is that response's: resolved
\* for a 2xx, an ApiError of the retried status otherwise.
C1_RefreshOnceRetryOnce ==
    \A i \in Calls :
        (calls[i].first = 401 /\ calls[i].rres = "okToken") =>
            /\ calls[i].refreshCalls = 1
            /\ calls[i].sends = 2
            /\ (calls[i].pc = "done" /\ calls[i].retry > 0) =>
                  IF isOk(calls[i].retry)
                  THEN calls[i].out = Resolved
                  ELSE /\ calls[i].out.k = "ApiError"
                       /\ calls[i].out.status = calls[i].retry

C1_Witness ==
    \E i \in Calls :
        /\ calls[i].pc = "done"
        /\ calls[i].first = 401
        /\ calls[i].rres = "okToken"
        /\ calls[i].retry = 200
        /\ calls[i].out = Resolved

\* C2: a call sends its request at most twice and calls the refresh endpoint
\* at most once; a retried response of 401 ends it with an ApiError of status
\* 401, after two sends and one refresh.
C2_AtMostOneRefresh ==
    \A i \in Calls :
        /\ calls[i].sends <= 2
        /\ calls[i].refreshCalls <= 1
        /\ calls[i].retry = 401 =>
              /\ calls[i].pc = "done"
              /\ calls[i].out.k = "ApiError"
              /\ calls[i].out.status = 401
              /\ calls[i].sends = 2
              /\ calls[i].refreshCalls = 1

C2_Witness ==
    \E i \in Calls :
        /\ calls[i].pc = "done"
        /\ calls[i].retry = 401
        /\ calls[i].out.status = 401

\* C3 (as claimed): never are two refresh calls of the 401 path in flight at
\* the same time.
C3_SingleFlightRefresh ==
    Cardinality({i \in Calls : calls[i].pc = "refresh"}) <= 1

\* C4 (as claimed): when logout() has purged the tokens while the refresh of
\* call i was awaiting its response, the continuation of that refresh leaves
\* the store without tokens and the session unauthenticated.
C4_LogoutAuthoritative ==
    [][\A i \in Calls :
          ( /\ hist[i].logout
            /\ AwaitingRefresh(calls[i])
            /\ calls'[i].pc # calls[i].pc ) =>
          (Emptied(store') /\ ~sess'.isAuthenticated)]_vars

\* C5 (as claimed): when a call of an ordinary endpoint finishes after its
\* refresh succeeded, and the store still holds the access token that refresh
\* gave, the store is left as it is, whatever the retried request gave.
C5_RefreshedTokensKept ==
    [][\A i \in Calls :
          ( /\ calls[i].kind = "resource"
            /\ calls[i].pc = "retry"
            /\ calls'[i].pc = "done"
            /\ store.access = calls[i].access_token ) =>
          (store' = store)]_vars

\* C6 (as claimed): every successful refresh, of the 401 path or of
\* refreshAuth, adds exactly one tokenRefreshed event, and a failed refresh
\* adds none.
C6_EveryRefreshBroadcasts ==
    [][\A i \in Calls :
          /\ (GatewayRefreshOkStep(i) \/ AuthRefreshOkStep(i)) =>
                Broadcasts(calls') = Broadcasts(calls) + 1
          /\ (GatewayRefreshFailStep(i) \/ AuthRefreshFailStep(i)) =>
                Broadcasts(calls') = Broadcasts(calls)]_vars

\* C6 (amended): a call has dispatched exactly one tokenRefreshed event once
\* the refresh of its 401 path has succeeded, and none otherwise: none after
\* a failed refresh, and none when the call is refreshAuth's own request to
\* the refresh endpoint and that request succeeded.
C6_GatewayRefreshBroadcasts ==
    \A i \in Calls :
        calls[i].broadcasts = IF calls[i].rres = "okToken" THEN 1 ELSE 0

C6_Witness ==
    \E i, j \in Calls :
        /\ calls[i].rres = "okToken" /\ calls[i].broadcasts = 1
        /\ calls[j].kind = "refreshAuth" /\ calls[j].pc = "done"
        /\ calls[j].first = 200 /\ calls[j].out.k = "ok"
        /\ calls[j].broadcasts = 0
        /\ Broadcasts(calls) = 1

\* C7: a first response of 401 while the store holds no refresh token ends the
\* call at once: no refresh call, no second send, the access token removed
\* from the store, and an ApiError with the response's status, 401.
C7_NoRefreshTokenFails ==
    [][\A i \in Calls :
          ( /\ calls[i].pc = "first"
            /\ calls'[i].first = 401
            /\ store.refresh = None ) =>
          ( /\ calls'[i].pc = "done"
            /\ calls'[i].refreshCalls = 0
            /\ calls'[i].sends = 1
            /\ store'.access = None
            /\ calls'[i].out.k = "ApiError"
            /\ calls'[i].out.status = calls'[i].first )]_vars

C7_Witness ==
    \E i \in Calls :
        /\ calls[i].pc = "done"
        /\ calls[i].kind = "resource"
        /\ calls[i].first = 401
        /\ calls[i].refreshCalls = 0
        /\ calls[i].out = ApiError("response", 401)
        /\ store.access = None

\* C8: a refresh that is answered non-2xx, or 2xx without an access token, or
\* whose fetch throws, ends the call without a retry, with both tokens removed
\* from the store and an ApiError of status 401.
C8_FailedRefreshPurges ==
    [][\A i \in Calls :
          GatewayRefreshFailStep(i) =>
          ( /\ calls'[i].pc = "done"
            /\ calls'[i].sends = 1
            /\ calls'[i].retry = -1
            /\ Emptied(store')
            /\ calls'[i].out.k = "ApiError"
            /\ calls'[i].out.status = 401 )]_vars

C8_Witness ==
    \E i, j \in Calls :
        /\ calls[i].pc = "done" /\ calls[i].rres = "notOk"
        /\ calls[j].pc = "done" /\ calls[j].rres = "netErr"
        /\ calls[i].out.status = 401 /\ calls[j].out.status = 401
        /\ Emptied(store)

\* C9 (as claimed): when the refresh of one request failed while the refresh
\* of another was awaiting its response, and that one failed too, the two
\* requests performed one purge and redirect between them.
C9_OneFailureEpisode ==
    [][\A i, j \in Calls :
          ( /\ calls[i].kind = "resource" /\ calls[j].kind = "resource"
            /\ j \in hist[i].failed
            /\ GatewayRefreshFailStep(i) ) =>
          calls'[i].purges + calls'[j].purges <= 1]_vars

\* C10: the step in which logout()'s backend call settles, however it does,
\* leaves the store without tokens, the session unauthenticated and not
\* admin, and /login pushed to the router.
C10_LogoutAlwaysPurges ==
    [][\A i \in Calls :
          ( /\ calls[i].kind = "logout"
            /\ calls[i].pc # "done"
            /\ calls'[i].pc = "done" ) =>
          ( /\ Emptied(store')
            /\ ~sess'.isAuthenticated
            /\ ~sess'.isAdmin
            /\ push' = "/login" )]_vars

C10_Witness ==
    \E i \in Calls :
        /\ calls[i].kind = "logout"
        /\ calls[i].pc = "done"
        /\ calls[i].first = 401
        /\ calls[i].rres = "okToken"
        /\ calls[i].out.k = "ApiError"
        /\ Emptied(store)
        /\ ~sess.isAuthenticated
        /\ push = "/login"

-----------------------------------------------------------------------------
(* The session at initialization and after *)

\* AuthProvider's effect runs in this step.
MountStep == ~mounted /\ mounted'

\* The token decodes and its expiry is strictly after the clock's reading t.
Unexpired(token, t) ==
    /\ decodeToken(token) # Null
    /\ decodeToken(token).exp * 1000 > t

SessionIs(a, d, l) ==
    [isAuthenticated |-> a, isAdmin |-> d, isLoading |-> l]

\* In this step the first request of call i is answered by resp.
FirstDelivered(i, resp) ==
    /\ calls[i].pc = "first"
    /\ resp \in Responses(calls[i].kind)
    /\ store' = onFirst(Cur, i, resp).store
    /\ sess' = onFirst(Cur, i, resp).sess
    /\ calls' = onFirst(Cur, i, resp).calls
    /\ push' = onFirst(Cur, i, resp).push
    /\ now' = now /\ events' = events

\* In this step the refresh fetch of call i's 401 path is answered 2xx with
\* the body b.
RefreshDelivered(i, b) ==
    /\ calls[i].pc = "refresh"
    /\ ~onRefresh(Cur, i, [kind |-> "ok", body |-> b]).over
    /\ store' = onRefresh(Cur, i, [kind |-> "ok", body |-> b]).store
    /\ sess' = onRefresh(Cur, i, [kind |-> "ok", body |-> b]).sess
    /\ calls' = onRefresh(Cur, i, [kind |-> "ok", body |-> b]).calls
    /\ push' = onRefresh(Cur, i, [kind |-> "ok", body |-> b]).push
    /\ now' = now /\ events' = events

\* C11 (as claimed): mounting with an expired access token and a refresh token
\* starts one call, refreshAuth's request to the refresh endpoint (call 1, the
\* first of the page); and when the backend accepts the refresh token and
\* answers that request 2xx with a new access token, in either shape of the
\* body, the session is authenticated, admin as the new token says and not
\* loading, and the call has sent one request and made no further refresh
\* call.
C11_ExpiredTokenRefreshed ==
    [][/\ ( /\ MountStep
            /\ store.access \in IssuedTokens
            /\ ~Unexpired(store.access, now)
            /\ store.refresh # None ) =>
          ( /\ calls'[1].kind = "refreshAuth"
            /\ calls'[1].pc = "first"
            /\ calls'[1].sends = 1
            /\ \A j \in Calls \ {1} : calls'[j] = IdleCall
            /\ ~sess'.isLoading )
       /\ \A a \in IssuedTokens : \A r \in NewRefreshTokens \cup {None} :
          \A b \in {Unwrapped(a, r), Wrapped(a, r)} :
             (calls[1].kind = "refreshAuth" /\ FirstDelivered(1, b)) =>
             ( /\ sess' = SessionIs(TRUE, Payload[a].is_admin, FALSE)
               /\ calls'[1].sends = 1
               /\ calls'[1].refreshCalls = 0 )]_vars

\* C12: mounting with an access token that is expired or does not decode, and
\* no refresh token, leaves the store without tokens and the session not
\* authenticated, not admin and not loading, and starts no call; and when
\* refreshAuth's call fails, however it does, the step leaves the store
\* without tokens and the session not authenticated, not admin, not loading.
C12_FailedRefreshEndsLoggedOut ==
    [][/\ ( /\ MountStep
            /\ store.access # None
            /\ ~Unexpired(store.access, now)
            /\ store.refresh = None ) =>
          ( /\ Emptied(store')
            /\ sess' = SessionIs(FALSE, FALSE, FALSE)
            /\ calls' = calls )
       /\ \A i \in Calls :
             AuthRefreshFailStep(i) =>
             ( /\ Emptied(store')
               /\ sess' = SessionIs(FALSE, FALSE, FALSE) )]_vars

C12_Witness ==
    /\ calls[1].kind = "refreshAuth"
    /\ calls[1].pc = "done"
    /\ calls[1].first = 500
    /\ calls[1].out = ApiError("response", 500)
    /\ \A j \in Calls \ {1} : calls[j] = IdleCall
    /\ Emptied(store)
    /\ sess = SessionIs(FALSE, FALSE, FALSE)

\* C13: mounting with an access token that decodes and expires strictly after
\* now makes the session authenticated, admin as the token says and not
\* loading, starts no call and leaves the store as it is.
C13_ValidTokenAtInit ==
    [][( /\ MountStep
         /\ store.access # None
         /\ Unexpired(store.access, now) ) =>
       ( /\ sess' = SessionIs(TRUE, Payload[store.access].is_admin, FALSE)
         /\ calls' = calls
         /\ store' = store )]_vars

C13_Witness ==
    /\ mounted
    /\ store.access = "adm1"
    /\ sess = SessionIs(TRUE, TRUE, FALSE)
    /\ \A i \in Calls : calls[i] = IdleCall

\* C14: mounting with no access token in the store makes the session not
\* authenticated, not admin and not loading, and starts no call.
C14_NoTokenAtInit ==
    [][(MountStep /\ store.access = None) =>
       ( /\ sess' = SessionIs(FALSE, FALSE, FALSE)
         /\ calls' = calls )]_vars

C14_Witness ==
    /\ mounted
    /\ store.access = None
    /\ store.refresh # None
    /\ sess = SessionIs(FALSE, FALSE, FALSE)
    /\ \A i \in Calls : calls[i] = IdleCall

\* C15: isLoading is true until AuthProvider has mounted, and no step of the
\* page (a re-check on a storage or tokenRefreshed event, the timer, a refresh
\* that succeeds or fails, login, logout) makes it true once it is false.
C15_LoadingMonotone ==
    [][/\ ~mounted => sess.isLoading
       /\ ~sess.isLoading => ~sess'.isLoading]_vars

C15_Witness ==
    /\ ~sess.isLoading
    /\ now > 0
    /\ events.queue # <<>>
    /\ \E i, j \in Calls :
          /\ calls[i].kind = "refreshAuth" /\ calls[i].pc = "done"
          /\ calls[i].out.k = "ApiError"
          /\ calls[j].kind = "login" /\ calls[j].pc = "done"

\* C16 (as claimed): a step that makes the session authenticated leaves in the
\* store an access token that decodes and whose exp * 1000 is strictly greater
\* than the time of the step.
C16_TrustedOnlyUnexpired ==
    [][(~sess.isAuthenticated /\ sess'.isAuthenticated) =>
       ( /\ store'.access # None
         /\ Unexpired(store'.access, now') )]_vars

\* C17 (as claimed): a call that has failed has failed with an ApiError that
\* carries an HTTP status.
C17_FailuresAreApiErrors ==
    \A i \in Calls :
        (calls[i].pc = "done" /\ calls[i].out.k # "ok") =>
            /\ calls[i].out.k = "ApiError"
            /\ calls[i].out.status \in Statuses

\* C18: a response of status 403, or of another status that is neither 2xx
\* nor 401, to the first or to the retried request ends the call with an
\* ApiError of that status; apiRequest makes no refresh call, sends nothing
\* more, purges nothing and navigates nowhere in that step, and when the
\* caller is an ordinary one the store and the router are left as they are.
C18_OtherFailuresLeaveTokens ==
    [][\A i \in Calls :
          LET st == IF calls[i].pc = "first" THEN calls'[i].first
                    ELSE calls'[i].retry
          IN
          ( /\ calls[i].pc \in {"first", "retry"}
            /\ st \in Statuses
            /\ ~isOk(st) /\ st # 401 ) =>
          ( /\ calls'[i].pc = "done"
            /\ calls'[i].out.k = "ApiError"
            /\ calls'[i].out.status = st
            /\ calls'[i].refreshCalls = calls[i].refreshCalls
            /\ calls'[i].sends = calls[i].sends
            /\ calls'[i].purges = calls[i].purges
            /\ calls'[i].navs = calls[i].navs
            /\ calls[i].kind = "resource" =>
                  (store' = store /\ push' = push) )]_vars

C18_Witness ==
    \E i \in Calls :
        /\ calls[i].kind = "resource"
        /\ calls[i].pc = "done"
        /\ calls[i].first = 401
        /\ calls[i].rres = "okToken"
        /\ calls[i].retry = 403
        /\ calls[i].out = ApiError("forbidden", 403)
        /\ calls[i].navs = 0
        /\ store.access \in IssuedTokens
        /\ store.refresh # None

\* C19 (as claimed): when a refresh is answered 2xx with the tokens wrapped in
\* a data field, the step leaves the store as the same tokens unwrapped would
\* have left it: so for the refresh of the 401 path, and so for refreshAuth's
\* request.
C19_BothShapesAccepted ==
    [][\A i \in Calls :
       \A a \in IssuedTokens : \A r \in NewRefreshTokens \cup {None} :
          /\ RefreshDelivered(i, Wrapped(a, r)) =>
                store' = onRefresh(Cur, i, [kind |-> "ok",
                                            body |-> Unwrapped(a, r)]).store
          /\ (calls[i].kind = "refreshAuth"
              /\ FirstDelivered(i, Wrapped(a, r))) =>
                store' = onFirst(Cur, i, Unwrapped(a, r)).store]_vars

\* What a check of the session against a store holding acc and ref leaves.
ReChecked(acc, ref) ==
    IF acc = None
    THEN ~sess'.isAuthenticated /\ ~sess'.isAdmin
    ELSE IF Unexpired(acc, now)
    THEN sess'.isAuthenticated /\ sess'.isAdmin = Payload[acc].is_admin
    ELSE IF ref # None
    THEN \E j \in Calls : /\ calls[j].pc = "idle"
                          /\ calls'[j].kind = "refreshAuth"
                          /\ calls'[j].pc = "first"
    ELSE store'.access = None /\ ~sess'.isAuthenticated /\ ~sess'.isAdmin

\* C20: the step that delivers a storage event of key access_token or
\* refresh_token, and the step in which the refresh of a 401 path succeeds
\* (it dispatches tokenRefreshed), check the session against the store as it
\* is then: without an access token the session is not authenticated and not
\* admin; with one that decodes and is unexpired it is authenticated, admin
\* as the token says; otherwise refreshAuth runs, which starts a call of the
\* refresh endpoint or, with no refresh token, removes the access token and
\* ends not authenticated.  The session is not loading afterwards.
C20_NotificationsReCheck ==
    [][/\ ( /\ events.queue # <<>>
            /\ events'.queue = Tail(events.queue)
            /\ Head(events.queue) \in {"access", "refresh"} ) =>
          (ReChecked(store.access, store.refresh) /\ ~sess'.isLoading)
       /\ \A i \in Calls :
             GatewayRefreshOkStep(i) =>
             ( /\ ReChecked(calls'[i].access_token, store'.refresh)
               /\ ~sess'.isLoading )]_vars

C20_Witness ==
    /\ now = 0
    /\ events.queue = <<>>
    /\ calls[1].kind = "refreshAuth"
    /\ calls[1].pc = "done"
    /\ calls[1].out.k = "ApiError"
    /\ \A j \in Calls \ {1} : calls[j] = IdleCall
    /\ store.access = "adm1"
    /\ sess = SessionIs(TRUE, TRUE, FALSE)

-----------------------------------------------------------------------------
(* The timer, the codec, the store *)

\* The timer fires in this step.
TickStep == now' = now + intervalMs

\* At the time t the token decodes and is less than five minutes from its
\* expiry, or past it.
DueForRefresh(token, t) ==
    /\ token # None
    /\ decodeToken(token) # Null
    /\ decodeToken(token).exp * 1000 - t < fiveMinutes

\* The step starts one call, refreshAuth's request, and changes nothing else.
StartsRefreshCall ==
    /\ \E j \in Calls :
          /\ calls[j].pc = "idle"
          /\ calls'[j].kind = "refreshAuth"
          /\ calls'[j].pc = "first"
          /\ \A m \in Calls \ {j} : calls'[m] = calls[m]
    /\ store' = store
    /\ sess' = sess

\* C21: when the timer fires and the store holds an access token that decodes
\* and is less than five minutes from its expiry, or past it, refreshAuth
\* runs: it starts one call of the refresh endpoint or, with no refresh token,
\* removes the access token and ends not authenticated.  When the store holds
\* no access token, or one that does not decode, or one five minutes or more
\* from its expiry, the step starts no call and leaves the store and the
\* session as they are.
C21_TickRefreshesNearExpiry ==
    [][TickStep =>
       IF DueForRefresh(store.access, now')
       THEN IF store.refresh # None
            THEN StartsRefreshCall
            ELSE /\ calls' = calls
                 /\ store' = [store EXCEPT !.access = None]
                 /\ sess' = [sess EXCEPT !.isAuthenticated = FALSE,
                                         !.isAdmin = FALSE]
       ELSE calls' = calls /\ store' = store /\ sess' = sess]_vars

C21_Witness ==
    /\ now = intervalMs
    /\ store.access = "usr2"
    /\ sess.isAuthenticated
    /\ calls[1].kind = "refreshAuth"
    /\ calls[1].pc = "first"
    /\ \A j \in Calls \ {1} : calls[j] = IdleCall

\* A token is well formed when it has three segments, the middle one is
\* base64url and decodes to a JSON text.
WellFormed(token) ==
    /\ Len(split(token)) = 3
    /\ \A k \in 1..Len(split(token)[2]) :
          split(token)[2][k] \in {"a", "x", "-", "+"}
    /\ split(token)[2] # <<>>
    /\ \A k \in 1..Len(split(token)[2]) : split(token)[2][k] # "x"

\* C22 (as claimed): the codec gives null for every token that is not well
\* formed: one whose segments are not three, one whose middle segment is not
\* base64url, one whose middle segment does not decode to JSON.
C22_MalformedGivesNull ==
    (jwt.called /\ ~WellFormed(jwt.token)) => jwt.decoded = Null

\* A step removes a stored token.
RemovesToken ==
    \/ store.access # None /\ store'.access = None
    \/ store.refresh # None /\ store'.refresh = None

\* C23 (as claimed): a step that removes a stored token is the end of a
\* logout, or has found no refresh token in the store, or is the failure of
\* a refresh: of the 401 path's refresh call or of refreshAuth's request.
C23_OnlyLogoutOrRefreshFailurePurges ==
    [][RemovesToken =>
          \/ store.refresh = None
          \/ \E i \in Calls :
                \/ calls[i].kind = "logout" /\ calls[i].pc # "done"
                                            /\ calls'[i].pc = "done"
                \/ GatewayRefreshFailStep(i)
                \/ AuthRefreshFailStep(i)]_vars

\* C24: when login's request for the authorization URL is answered with
\* anything but a 401, the step leaves the session, the stored tokens and the
\* router as they are; with a 2xx the browser is sent to the authorization
\* URL and nothing is thrown, otherwise the error is thrown on to the caller
\* and the browser is sent nowhere.
C24_LoginLeavesSession ==
    [][\A i \in Calls :
          ( /\ calls[i].kind = "login"
            /\ calls[i].pc = "first"
            /\ calls'[i].pc = "done"
            /\ calls'[i].first # 401 ) =>
          ( /\ sess' = sess
            /\ store' = store
            /\ push' = push
            /\ IF calls'[i].out.k = "ok"
               THEN calls'[i].navs = calls[i].navs + 1 /\ ~calls'[i].rethrown
               ELSE calls'[i].navs = calls[i].navs /\ calls'[i].rethrown )]_vars

C24_Witness ==
    \E i \in Calls :
        /\ calls[i].kind = "login"
        /\ calls[i].pc = "done"
        /\ calls[i].first = 500
        /\ calls[i].out.k = "ApiError"
        /\ calls[i].rethrown
        /\ calls[i].navs = 0
        /\ store.access \in IssuedTokens
        /\ store.refresh # None
        /\ sess.isAuthenticated

\* C25: in the step in which the refresh of a 401 path succeeds, the tokens
\* are written, then tokenRefreshed is dispatched, then the request is sent
\* again: the listener has read the new access token (the session is what
\* checkAuth makes of it, and a refresh request the listener starts carries
\* the tokens of the store as written), one event has been dispatched, and
\* the request is in flight a second time; no call awaits its retried
\* response without having dispatched the event.
C25_WriteNotifyResend ==
    [][\A i \in Calls :
          /\ GatewayRefreshOkStep(i) =>
             ( /\ calls'[i].pc = "retry"
               /\ calls'[i].sends = calls[i].sends + 1
               /\ calls'[i].broadcasts = calls[i].broadcasts + 1
               /\ calls'[i].access_token \in IssuedTokens
               /\ mounted => ReChecked(calls'[i].access_token, store'.refresh)
               /\ \A j \in Calls \ {i} :
                     (calls[j].pc = "idle" /\ calls'[j].pc = "first") =>
                     ( /\ calls'[j].Authorization = calls'[i].access_token
                       /\ calls'[j].refreshToken = store'.refresh
                       /\ store'.access = calls'[i].access_token ) )
          /\ calls'[i].pc = "retry" => calls'[i].broadcasts = 1]_vars

C25_Witness ==
    \E i \in Calls :
        /\ mounted
        /\ calls[i].kind = "resource"
        /\ calls[i].pc = "retry"
        /\ calls[i].broadcasts = 1
        /\ calls[i].sends = 2
        /\ store.access = "adm1"
        /\ sess = SessionIs(TRUE, TRUE, FALSE)

\* C26: a request sent for the first time carries as its Authorization
\* header the access token of the store as it is when the request is sent,
\* and no header when the store has none; the request sent again after a
\* refresh carries the access token that the refresh call returned, whatever
\* the store holds then.
C26_BearerOfEachSend ==
    [][\A i \in Calls :
          /\ (calls[i].pc = "idle" /\ calls'[i].pc = "first") =>
                (calls'[i].sends = 1 /\ calls'[i].Authorization = store'.access)
          /\ \A b \in TokenBodies :
                (RefreshDelivered(i, b) /\ tokenData(b).access # None) =>
                ( /\ calls'[i].pc = "retry"
                  /\ calls'[i].sends = 2
                  /\ calls'[i].Authorization = tokenData(b).access )]_vars

\* The retried request is in flight with the token of the refresh while the
\* store holds another, here none.
C26_Witness ==
    \E i \in Calls :
        /\ calls[i].pc = "retry"
        /\ calls[i].sends = 2
        /\ calls[i].Authorization \in IssuedTokens
        /\ store.access = None

\* A failure branch of the 401 path is taken by call i in this step: no
\* refresh token is stored, or the refresh call fails, or something is thrown
\* after it (the retried fetch rejects).
FailureBranchStep(i) ==
    \/ /\ calls[i].pc = "first"
       /\ calls'[i].first = 401
       /\ inBrowser(calls[i].kind)
       /\ store.refresh = None
    \/ GatewayRefreshFailStep(i)
    \/ calls[i].pc = "retry" /\ calls'[i].retry = 0

\* C27: a call that takes a failure branch of the 401 path sends the browser
\* to /login exactly when the current path starts with neither /login nor
\* /auth; on either path the access token is removed (both tokens, when the
\* refresh was tried), the call ends with an ApiError, and on a /login or
\* /auth path the browser is sent nowhere.  No other step of a call
\* navigates.
C27_NoRedirectLoop ==
    [][\A i \in Calls :
          /\ FailureBranchStep(i) =>
             ( /\ IF path \in {"login", "auth"}
                  THEN calls'[i].navs = calls[i].navs
                  ELSE calls'[i].navs > calls[i].navs
               /\ calls'[i].pc = "done"
               /\ calls'[i].out.k = "ApiError"
               /\ store'.access = None
               /\ calls[i].pc # "first" => Emptied(store') )
          /\ calls'[i].navs # calls[i].navs => FailureBranchStep(i)]_vars

\* On an /auth path a refresh has failed: purged, thrown, not navigated.
C27_Witness ==
    \E i \in Calls :
        /\ path = "auth"
        /\ calls[i].kind = "resource"
        /\ calls[i].pc = "done"
        /\ calls[i].rres = "notOk"
        /\ calls[i].purges > 0
        /\ calls[i].navs = 0
        /\ calls[i].out.k = "ApiError"
        /\ Emptied(store)

\* C28: a request made where there is no window is sent without a token of
\* the store, and when it is answered 401 the call ends in that step with an
\* ApiError of status 401, having sent one request, called the refresh
\* endpoint not at all, removed nothing and navigated nowhere; store, session
\* and router are as before.
C28_ServerSide401 ==
    [][\A i \in Calls :
          /\ (calls[i].pc = "idle" /\ calls'[i].kind = "server") =>
                (calls'[i].Authorization = None /\ store' = store)
          /\ ( /\ calls[i].kind = "server"
               /\ calls[i].pc = "first"
               /\ calls'[i].first = 401 ) =>
             ( /\ calls'[i].pc = "done"
               /\ calls'[i].out = ApiError("response", 401)
               /\ calls'[i].sends = 1
               /\ calls'[i].refreshCalls = 0
               /\ calls'[i].purges = 0
               /\ calls'[i].navs = 0
               /\ store' = store
               /\ sess' = sess
               /\ push' = push )]_vars

C28_Witness ==
    \E i \in Calls :
        /\ calls[i].kind = "server"
        /\ calls[i].pc = "done"
        /\ calls[i].first = 401
        /\ calls[i].out.k = "ApiError"
        /\ calls[i].out.status = 401
        /\ calls[i].refreshCalls = 0
        /\ store.access \in IssuedTokens
        /\ store.refresh # None
        /\ path = "app"

\* C29 (as claimed): when the backend rejects a refresh attempt that was made
\* with a refresh token which is no longer the stored one, another attempt
\* having stored a new refresh token and an unexpired access token
\* meanwhile, the rejection leaves that pair in the store.
C29_StaleFailureKeepsLivePair ==
    [][\A i \in Calls :
          ( /\ \/ GatewayRefreshFailStep(i) /\ calls'[i].rres = "notOk"
               \/ AuthRefreshFailStep(i) /\ calls'[i].first \in {403, 500}
            /\ calls[i].refreshToken \in StoredRefreshTokens
            /\ store.refresh \in NewRefreshTokens
            /\ Unexpired(store.access, now) ) =>
          (store' = store)]_vars

\* C30 (as claimed): when the refresh that checkAuth started at mount (call
\* 1, the first of the page) is answered with a new access token while the
\* session is not authenticated, the session is still loading.
C30_LoadingUntilRefreshed ==
    [][( /\ calls[1].kind = "refreshAuth"
         /\ now = 0
         /\ AuthRefreshOkStep(1)
         /\ ~sess.isAuthenticated ) =>
       sess.isLoading]_vars

-----------------------------------------------------------------------------
(* One failure, one refresh; the guarded pages; the callback page *)

\* C34 (as claimed): when the refresh of a call's 401 path is answered with a
\* status that is not 2xx, or 2xx without an access token, the call purges
\* the tokens once, assigns location.href at most once, and ends with the
\* error thrown for that failure, not with the one of the catch block.
C34_OnePurgeOneRedirect ==
    [][\A i \in Calls :
          ( /\ GatewayRefreshFailStep(i)
            /\ calls'[i].rres \in {"notOk", "okNoToken"} ) =>
          ( /\ calls'[i].purges = calls[i].purges + 1
            /\ calls'[i].navs <= calls[i].navs + 1
            /\ calls'[i].out.k = "ApiError"
            /\ calls'[i].out.msg # "refreshException" )]_vars

\* C35 (as claimed): refreshAuth's request to the refresh endpoint is sent
\* once, and the 401 path makes no refresh call of its own on its behalf.
C35_RefreshAuthCallsOnce ==
    \A i \in Calls :
        calls[i].kind = "refreshAuth" =>
        (calls[i].refreshCalls = 0 /\ calls[i].sends <= 1)

\* Nothing is in progress in the tab: no request or refresh awaits its
\* response, no storage event awaits its handler, and no navigation has been
\* asked for, neither of the window nor of the router.
Quiescent ==
    /\ \A i \in Calls : calls[i].pc \in {"idle", "done"} /\ calls[i].navs = 0
    /\ push = None
    /\ events.queue = <<>>

\* C33 (as claimed): in a quiescent state an authenticated session has an
\* access token in the store.
C33_AuthenticatedHasToken ==
    (Quiescent /\ sess.isAuthenticated) => store.access # None

\* C31 (as claimed): when a dashboard page is opened with an expired or
\* undecodable access token and a refresh token, the step in which
\* AuthProvider's effect runs, AdminProtectedRoute being mounted, starts the
\* refresh and does not make the guard redirect to /login.
C31_GuardAwaitsInitialRefresh ==
    [][( /\ MountStep
         /\ guard.mounted
         /\ store.access # None
         /\ ~Unexpired(store.access, now)
         /\ store.refresh # None ) =>
       ( /\ calls'[1].kind = "refreshAuth"
         /\ ~guard'.hasRedirected
         /\ push' # "/login" )]_vars

\* C32: AdminProtectedRoute shows its children only while the session is not
\* loading, authenticated and admin and the guard has not redirected; and a
\* guard that has redirected stays so and shows no children for as long as
\* it is mounted, whatever the session becomes.
C32_ChildrenOnlyForAdmins ==
    [][/\ guard'.view = "children" =>
            ( /\ guard'.mounted
              /\ ~sess'.isLoading
              /\ sess'.isAuthenticated
              /\ sess'.isAdmin
              /\ ~guard'.hasRedirected )
       /\ (guard.hasRedirected /\ guard'.mounted) =>
            (guard'.hasRedirected /\ guard'.view = "spinner")]_vars

\* The guard has redirected, is still mounted, and the session has become an
\* admin's since: the children stay hidden.
C32_Witness ==
    /\ guard.mounted
    /\ guard.hasRedirected
    /\ guard.view = "spinner"
    /\ sess = SessionIs(TRUE, TRUE, FALSE)
    /\ store.access = "adm1"

\* C36: the callback page's effect without code or state sets its error,
\* starts no call and writes nothing.  When its exchange is answered 2xx
\* with an access token at the top of the body, the page stores it, stores
\* the refresh token if the body has one and leaves the stored one
\* otherwise, and sends the browser to /dashboard; answered 2xx without one,
\* it sets its error, writes nothing and navigates nowhere.  However the
\* call ends, the browser is sent on only after a 2xx answer with the token
\* then stored, and a call that fails writes no token, sets the error and
\* navigates nowhere.
C36_CallbackStoresOnlyTokens ==
    [][/\ (error = None /\ error' = "Missing code or state parameters") =>
            (calls' = calls /\ store' = store)
       /\ \A i \in Calls :
             /\ \A resp \in Responses("callback") :
                   ( /\ calls[i].kind = "callback"
                     /\ FirstDelivered(i, resp)
                     /\ resp.status = 200 ) =>
                   IF resp.access # None
                   THEN /\ store'.access = resp.access
                        /\ store'.refresh = IF resp.refresh # None
                                            THEN resp.refresh
                                            ELSE store.refresh
                        /\ calls'[i].navs = calls[i].navs + 1
                        /\ error' = None
                   ELSE /\ store' = store
                        /\ calls'[i].navs = calls[i].navs
                        /\ error' = "No access token received"
             /\ ( /\ calls[i].kind = "callback"
                  /\ calls[i].pc # "done"
                  /\ calls'[i].pc = "done" ) =>
                ( /\ calls'[i].navs > calls[i].navs =>
                        ( /\ calls'[i].out.k = "ok"
                          /\ store'.access \in IssuedTokens
                          /\ error' = None )
                  /\ calls'[i].out.k # "ok" =>
                        ( /\ error' = "Failed to exchange token"
                          /\ calls'[i].navs = calls[i].navs
                          /\ store'.access \in {store.access, None}
                          /\ store'.refresh \in {store.refresh, None} ) )]_vars

\* The exchange gave an access token and no refresh token: the one stored
\* before is still there, and the browser has been sent on.
C36_Witness ==
    \E i \in Calls :
        /\ calls[i].kind = "callback"
        /\ calls[i].pc = "done"
        /\ calls[i].first = 200
        /\ calls[i].out.k = "ok"
        /\ calls[i].navs = 1
        /\ store = [access |-> "adm1", refresh |-> "r0"]
        /\ error = None

====
